---- MODULE Spec2Model ----
(***************************************************************************)
(* Stock-and-alert consistency engine of the pharmacy inventory backend.   *)
(*                                                                         *)
(* The four stores (medicines, issuance ledger, activity log, alerts) and  *)
(* the user collection are the state.  Every route handler is a sequence   *)
(* of steps, one per awaited store operation: between two awaits of one    *)
(* request the event loop may run steps of other requests.  A handler      *)
(* works on the document it read (loc[p].doc) and save() writes back only  *)
(* the paths the handler modified.  Time is counted in days.               *)
(***************************************************************************)
EXTENDS Integers, Sequences, FiniteSets, TLC

VARIABLES meds, issuances, activity, alerts, users, pc, loc, now, left, faults

vars == <<meds, issuances, activity, alerts, users, pc, loc, now, left, faults>>

(* ------------------------------ bounds -------------------------------- *)

\* Requests that may be in flight at once.
Procs == {"p1", "p2"}

\* Requests accepted in one run.
MaxOps == 2

\* Requests accepted in one run of the restock/issue race.
MaxRaceOps == 3

\* Medicine documents the collection can hold.
MaxMeds == 2

\* User documents the collection can hold.
MaxUsers == 4

\* Side-channel saves that may fail in one run of the failure runs.
MaxFaults == 2

\* Requests accepted in one run of the failure runs.
MaxFaultOps == 1

MedIds == 1..MaxMeds

UserIds == 1..MaxUsers

NoEmail == ""

Emails == {"a@x", "d@x"}

BodyRoles == {"", "Admin", "Pharmacist", "Nurse"}

NoBarcode == ""

Barcodes == {"b1"}

CreateQtys == {-1, 1, 3}

MinQtys == {1}

ExpiryDates == {0, 31}

IssueQtys == {0, 1, 2}

\* stockToAdd as the request carries it, in tenths of a unit: absent or 0,
\* -1, 1.5 and 3.
StockToAddVals == {-10, 0, 15, 30}

\* The stock-deltas that come together with a quantity field: none, and
\* a whole restock.
QuantityBodyDeltas == {0, 30}

BodyQtys == {9}

\* Alert ids a request may name.
MaxAlertId == 3

\* Requests accepted in one run of the alert runs.
MaxAlertOps == 3

\* Days the clock runs in the runs that follow alerts to their expiry.
MaxNow == 8

\* Days the clock may advance while one stock check awaits an alert save.
MaxPassDelay == 1

\* Records and clock readings the stock check is run on by itself.
PolicyQtys == 0..3

PolicyMinQtys == {1, 2}

PolicyNows == {1, 2}

PolicyExpiries == {0, 1, 2, 3, 31, 32, 33}

(* --------------------------- program constants ------------------------- *)

ExpiryWindowDays == 30

AlertTtlDays == 7

AlertTypeEnum ==
  {"user_added", "stock_low", "medicine_expiring", "medicine_expired",
   "stock_entry", "medicine_issued", "user_deleted", "medicine_added", "system"}

(* ------------------------------ documents ------------------------------ *)

NoMed ==
  [exists |-> FALSE, isActive |-> FALSE, quantity |-> 0, initialStock |-> 0,
   minQuantity |-> 1, expiryDate |-> 0, barcode |-> NoBarcode]

NewMedicine(q, i, mq, e, b) ==
  [exists |-> TRUE, isActive |-> TRUE, quantity |-> q, initialStock |-> i,
   minQuantity |-> mq, expiryDate |-> e, barcode |-> b]

\* Two units on hand, threshold three, expiry a month ahead.
SeedMedicine(b) == NewMedicine(2, 2, 3, 31, b)

isLowStock(doc) == doc.quantity <= doc.minQuantity

stockOut(doc) == doc.initialStock - doc.quantity

\* The schema's validators, run by save() on the document in hand.
SchemaValid(doc) ==
  /\ doc.quantity >= 0
  /\ doc.initialStock >= 0
  /\ doc.minQuantity >= 1

\* A collection without the index.
BarcodeIndexAbsent(id, b) == FALSE

\* The unique sparse index on barcode covers every document that has one,
\* active or not.
BarcodeIndexClash(id, b) ==
  /\ b # NoBarcode
  /\ \E o \in MedIds : o # id /\ meds[o].exists /\ meds[o].barcode = b

\* findOne({ barcode, isActive: true, _id: { $ne: id } }); id 0 excludes none.
FindActiveBarcode(id, b) ==
  \E o \in MedIds :
    o # id /\ meds[o].exists /\ meds[o].isActive /\ meds[o].barcode = b

FreeIds == {m \in MedIds : ~meds[m].exists}

(* ------------------------------ side channels -------------------------- *)

NewAlert(type, severity, entityType, entityId, info) ==
  [type |-> type, severity |-> severity, entityType |-> entityType,
   entityId |-> entityId, info |-> info, isRead |-> FALSE, isActive |-> TRUE,
   createdAt |-> now, expiresAt |-> now + AlertTtlDays]

\* createAlert: the save validates type against the schema's enum; a failed
\* save is caught and ignored.  The result is the alert store afterwards.
createAlert(store, type, severity, entityType, entityId, info) ==
  IF type \in AlertTypeEnum
    THEN Append(store, NewAlert(type, severity, entityType, entityId, info))
    ELSE store

MedicineAlertType(action) ==
  CASE action = "added" -> "medicine_added"
    [] action = "stock_entry" -> "stock_entry"
    [] action = "low_stock" -> "stock_low"
    [] action = "expiring" -> "medicine_expiring"
    [] action = "expired" -> "medicine_expired"
    [] action = "issued" -> "medicine_issued"

MedicineAlertSeverity(action) ==
  CASE action = "added" -> "success"
    [] action = "stock_entry" -> "info"
    [] action = "low_stock" -> "warning"
    [] action = "expiring" -> "warning"
    [] action = "expired" -> "danger"
    [] action = "issued" -> "info"

createMedicineAlert(store, action, medicineId, info) ==
  createAlert(store, MedicineAlertType(action), MedicineAlertSeverity(action),
              "Medicine", medicineId, info)

\* The comparison without the boundary.
LowStockDueStrict(doc) == doc.quantity < doc.minQuantity

\* if (medicine.quantity <= medicine.minQuantity)
LowStockDue(doc) == doc.quantity <= doc.minQuantity

\* expiryDate <= thirtyDaysFromNow && expiryDate > new Date(), the clock
\* reading t.
ExpiringDue(doc, t) ==
  doc.expiryDate <= t + ExpiryWindowDays /\ doc.expiryDate > t

\* expiryDate <= new Date(), the clock reading t.
ExpiredDue(doc, t) == doc.expiryDate <= t

\* checkAndCreateStockAlerts on the handler's document.  The expiring check
\* reads the clock (t1) before the expiring alert is awaited, the expired
\* check reads it again (t2) afterwards.
checkAndCreateStockAlerts(store, id, doc, t1, t2) ==
  LET s1 == IF LowStockDue(doc)
              THEN createMedicineAlert(store, "low_stock", id, doc.quantity)
              ELSE store
      s2 == IF ExpiringDue(doc, t1)
              THEN createMedicineAlert(s1, "expiring", id, 0)
              ELSE s1
      s3 == IF ExpiredDue(doc, t2)
              THEN createMedicineAlert(s2, "expired", id, 0)
              ELSE s2
  IN s3

\* logActivity: a failed save of the entry is caught and ignored.
logActivity(actionType, entityType, entityId, saved) ==
  activity' =
    IF saved
      THEN Append(activity, [actionType |-> actionType,
                             entityType |-> entityType, entityId |-> entityId])
      ELSE activity

\* The entries of s at the positions outside f, in order.
Surviving(s, f) ==
  LET kept[i \in 0..Len(s)] ==
        IF i = 0 THEN <<>>
        ELSE IF i \in f THEN kept[i - 1]
        ELSE Append(kept[i - 1], s[i])
  IN kept[Len(s)]

\* Side-channel writes that stop at the first failing save.
SideChannelUntilFailure(actionType, entityType, entityId, created) ==
  \E f \in SUBSET (0..Len(created)) :
    /\ Cardinality(f) <= faults
    /\ faults' = faults - Cardinality(f)
    /\ logActivity(actionType, entityType, entityId, 0 \notin f)
    /\ alerts' = alerts \o
         Surviving(created, {i \in 1..Len(created) : \E j \in f : j <= i})

\* The side-channel writes that follow a primary write: the activity-log
\* entry, then the alerts of `created` one after the other.  Any of the
\* saves may fail (f holds the failing ones, 0 for the log entry); each
\* failure is caught where it happens, so the later writes still run.
SideChannel(actionType, entityType, entityId, created) ==
  \E f \in SUBSET (0..Len(created)) :
    /\ Cardinality(f) <= faults
    /\ faults' = faults - Cardinality(f)
    /\ logActivity(actionType, entityType, entityId, 0 \notin f)
    /\ alerts' = alerts \o Surviving(created, f)

(* ------------------------------ control -------------------------------- *)

Goto(p, label, l) ==
  /\ pc' = [pc EXCEPT ![p] = label]
  /\ loc' = [loc EXCEPT ![p] = l]

\* The response is sent and the request is over; loc keeps the request and
\* its outcome until the next request arrives.
Respond(p, l, res) ==
  /\ pc' = [pc EXCEPT ![p] = "idle"]
  /\ loc' = [loc EXCEPT ![p] = [op |-> l.op, id |-> l.id, req |-> l.req, result |-> res]]

\* A request arrives at an idle worker; `left` requests may still arrive.
Accept(p) ==
  /\ pc[p] = "idle"
  /\ left > 0
  /\ left' = left - 1
  /\ UNCHANGED faults

Request(op, id, req, doc) ==
  [op |-> op, id |-> id, req |-> req, doc |-> doc,
   oldQuantity |-> doc.quantity, result |-> "pending"]

InitLoc == [op |-> "none", id |-> 0, req |-> <<>>, result |-> "none"]

(* ------------------------- POST /issuances ----------------------------- *)

\* The comparison off by one.
InsufficientStockOffByOne(doc, q) == doc.quantity <= q

\* if (medicine.quantity < quantityIssued)
InsufficientStock(doc, q) == doc.quantity < q

Expired(doc) == doc.expiryDate <= now

NotFound(doc) == ~doc.exists \/ ~doc.isActive

\* Validation, findById and the three precondition checks.
IssueStart(p) ==
  /\ Accept(p)
  /\ \E m \in MedIds, q \in IssueQtys :
       LET l == Request("issue", m, [quantityIssued |-> q], meds[m])
       IN IF q < 1 THEN Respond(p, l, "400 validation")
          ELSE IF NotFound(meds[m]) THEN Respond(p, l, "404")
          ELSE IF InsufficientStock(meds[m], q)
            THEN Respond(p, l, "400 insufficient")
          ELSE IF Expired(meds[m]) THEN Respond(p, l, "400 expired")
          ELSE Goto(p, "iss_save", l)
  /\ UNCHANGED <<meds, issuances, activity, alerts, users, now>>

\* A save that writes over the newest record of the ledger.
IssueSaveIssuanceInPlace(p) ==
  /\ pc[p] = "iss_save"
  /\ \/ /\ issuances' =
             IF issuances = <<>>
               THEN <<[medicineId |-> loc[p].id,
                       quantityIssued |-> loc[p].req.quantityIssued]>>
               ELSE [issuances EXCEPT ![Len(issuances)] =
                       [medicineId |-> loc[p].id,
                        quantityIssued |-> loc[p].req.quantityIssued]]
        /\ Goto(p, "iss_med", loc[p])
     \/ /\ Respond(p, loc[p], "500")
        /\ UNCHANGED issuances
  /\ UNCHANGED <<meds, activity, alerts, users, now, left, faults>>

\* await issuance.save()
IssueSaveIssuance(p) ==
  /\ pc[p] = "iss_save"
  /\ \/ /\ issuances' = Append(issuances,
             [medicineId |-> loc[p].id,
              quantityIssued |-> loc[p].req.quantityIssued])
        /\ Goto(p, "iss_med", loc[p])
     \/ /\ Respond(p, loc[p], "500")
        /\ UNCHANGED issuances
  /\ UNCHANGED <<meds, activity, alerts, users, now, left, faults>>

\* An unconditional store-side decrement in place of the document save.
IssueSaveMedicineInc(p) ==
  /\ pc[p] = "iss_med"
  /\ LET id == loc[p].id
         q == meds[id].quantity - loc[p].req.quantityIssued
     IN /\ meds' = [meds EXCEPT ![id].quantity = q]
        /\ Goto(p, "iss_tail", [loc[p] EXCEPT !.doc.quantity = q])
  /\ UNCHANGED <<issuances, activity, alerts, users, now, left, faults>>

\* medicine.quantity -= quantityIssued; await medicine.save()
IssueSaveMedicine(p) ==
  /\ pc[p] = "iss_med"
  /\ LET id == loc[p].id
         doc == [loc[p].doc EXCEPT !.quantity = @ - loc[p].req.quantityIssued]
     IN \/ /\ SchemaValid(doc)
           /\ meds' = [meds EXCEPT ![id].quantity = doc.quantity]
           /\ Goto(p, "iss_tail", [loc[p] EXCEPT !.doc = doc])
        \/ /\ Respond(p, loc[p], "500")
           /\ UNCHANGED meds
  /\ UNCHANGED <<issuances, activity, alerts, users, now, left, faults>>

\* The stock check run on the quantity the request read.
IssueTailPreIssue(p) ==
  /\ pc[p] = "iss_tail"
  /\ SideChannel("Issue", "Medicine", loc[p].id,
       checkAndCreateStockAlerts(
         createMedicineAlert(<<>>, "issued", loc[p].id,
                             loc[p].req.quantityIssued),
         loc[p].id, [loc[p].doc EXCEPT !.quantity = loc[p].oldQuantity],
         now, now))
  /\ Respond(p, loc[p], "201")
  /\ UNCHANGED <<meds, issuances, users, now, left>>

\* logActivity, the medicine_issued alert, the stock check, the response.
\* None of the handlers reads the activity log or the alert store, so the
\* appends are taken as one step, in which the clock stands still.
IssueTail(p) ==
  /\ pc[p] = "iss_tail"
  /\ SideChannel("Issue", "Medicine", loc[p].id,
       checkAndCreateStockAlerts(
         createMedicineAlert(<<>>, "issued", loc[p].id,
                             loc[p].req.quantityIssued),
         loc[p].id, loc[p].doc, now, now))
  /\ Respond(p, loc[p], "201")
  /\ UNCHANGED <<meds, issuances, users, now, left>>

(* -------------------------- POST /medicines ---------------------------- *)

ValidCreate(req) == req.quantity >= 0 /\ req.minQuantity >= 1

CreatesInFlight == Cardinality({p \in Procs : pc[p] = "cr_save"})

\* Validation, medicineData, the active-barcode lookup.
CreateStart(p) ==
  /\ Accept(p)
  /\ Cardinality(FreeIds) > CreatesInFlight
  /\ \E q \in CreateQtys, mq \in MinQtys, e \in ExpiryDates,
        b \in Barcodes \cup {NoBarcode} :
       LET req == [quantity |-> q, minQuantity |-> mq, expiryDate |-> e,
                   barcode |-> b]
           l == Request("create", 0, req, NewMedicine(q, q, mq, e, b))
       IN IF ~ValidCreate(req) THEN Respond(p, l, "400 validation")
          ELSE IF b # NoBarcode /\ FindActiveBarcode(0, b)
            THEN Respond(p, l, "400 barcode")
          ELSE Goto(p, "cr_save", l)
  /\ UNCHANGED <<meds, issuances, activity, alerts, users, now>>

\* await medicine.save(): an insert, checked by the schema and the index.
CreateSave(p) ==
  /\ pc[p] = "cr_save"
  /\ \/ /\ SchemaValid(loc[p].doc)
        /\ ~BarcodeIndexClash(0, loc[p].doc.barcode)
        /\ LET id == CHOOSE m \in FreeIds : \A o \in FreeIds : m <= o
           IN /\ meds' = [meds EXCEPT ![id] = loc[p].doc]
              /\ Goto(p, "cr_tail", [loc[p] EXCEPT !.id = id])
     \/ /\ BarcodeIndexClash(0, loc[p].doc.barcode)
        /\ Respond(p, loc[p], "400 barcode")
        /\ UNCHANGED meds
     \/ /\ Respond(p, loc[p], "500")
        /\ UNCHANGED meds
  /\ UNCHANGED <<issuances, activity, alerts, users, now, left, faults>>

\* The tail without the stock check.
CreateTailAddedOnly(p) ==
  /\ pc[p] = "cr_tail"
  /\ SideChannel("Add", "Medicine", loc[p].id,
                 createMedicineAlert(<<>>, "added", loc[p].id, 0))
  /\ Respond(p, loc[p], "201")
  /\ UNCHANGED <<meds, issuances, users, now, left>>

\* logActivity, the medicine_added alert, the stock check, the response.
CreateTail(p) ==
  /\ pc[p] = "cr_tail"
  /\ SideChannel("Add", "Medicine", loc[p].id,
       checkAndCreateStockAlerts(
         createMedicineAlert(<<>>, "added", loc[p].id, 0),
         loc[p].id, loc[p].doc, now, now))
  /\ Respond(p, loc[p], "201")
  /\ UNCHANGED <<meds, issuances, users, now, left>>

(* ------------------------- PUT /medicines/:id -------------------------- *)

UpdateBodies ==
  [stockToAdd : QuantityBodyDeltas, hasQuantity : {TRUE}, quantity : BodyQtys,
   barcode : Barcodes \cup {NoBarcode}]
  \cup [stockToAdd : StockToAddVals, hasQuantity : {FALSE}, quantity : {0},
        barcode : Barcodes \cup {NoBarcode}]

BarcodeChanged(req, doc) == req.barcode # NoBarcode /\ req.barcode # doc.barcode

\* parseInt(req.body.stockToAdd) || 0: the whole part, fraction dropped.
parseInt(tenths) ==
  IF tenths >= 0 THEN tenths \div 10 ELSE -((-tenths) \div 10)

\* A restock that forgets the initial stock.
ApplyStockToAddQuantityOnly(doc, d) ==
  IF d > 0 THEN [doc EXCEPT !.quantity = @ + d] ELSE doc

\* if (stockToAdd > 0) { quantity += stockToAdd; initialStock += stockToAdd }
ApplyStockToAdd(doc, d) ==
  IF d > 0
    THEN [doc EXCEPT !.quantity = @ + d, !.initialStock = @ + d]
    ELSE doc

\* Object.assign: of the fields the model keeps, only barcode is assigned.
AssignFields(doc, req) ==
  [doc EXCEPT !.barcode = IF req.barcode # NoBarcode THEN req.barcode ELSE @]

\* findById and the not-found check.
UpdateStart(p) ==
  /\ Accept(p)
  /\ \E m \in MedIds, req \in UpdateBodies :
       LET l == Request("update", m, req, meds[m])
       IN IF NotFound(meds[m]) THEN Respond(p, l, "404")
          ELSE IF BarcodeChanged(req, meds[m]) THEN Goto(p, "upd_bc", l)
          ELSE Goto(p, "upd_save", l)
  /\ UNCHANGED <<meds, issuances, activity, alerts, users, now>>

\* A barcode lookup that logs the request before it answers.
UpdateBarcodeCheckLogged(p) ==
  /\ pc[p] = "upd_bc"
  /\ logActivity("Update", "Medicine", loc[p].id, TRUE)
  /\ IF FindActiveBarcode(loc[p].id, loc[p].req.barcode)
       THEN Respond(p, loc[p], "400 barcode")
       ELSE Goto(p, "upd_save", loc[p])
  /\ UNCHANGED <<meds, issuances, alerts, users, now, left, faults>>

\* The barcode lookup among the other active records.
UpdateBarcodeCheck(p) ==
  /\ pc[p] = "upd_bc"
  /\ IF FindActiveBarcode(loc[p].id, loc[p].req.barcode)
       THEN Respond(p, loc[p], "400 barcode")
       ELSE Goto(p, "upd_save", loc[p])
  /\ UNCHANGED <<meds, issuances, activity, alerts, users, now, left, faults>>

\* The field changes and await medicine.save(), which sets the modified
\* paths of the stored document.
UpdateSave(p) ==
  /\ pc[p] = "upd_save"
  /\ LET id == loc[p].id
         req == loc[p].req
         doc == AssignFields(ApplyStockToAdd(loc[p].doc, parseInt(req.stockToAdd)), req)
     IN \/ /\ SchemaValid(doc)
           /\ ~(doc.barcode # loc[p].doc.barcode /\ BarcodeIndexClash(id, doc.barcode))
           /\ meds' = [meds EXCEPT ![id] =
                [@ EXCEPT
                   !.quantity = IF doc.quantity # loc[p].doc.quantity
                                  THEN doc.quantity ELSE @,
                   !.initialStock = IF doc.initialStock # loc[p].doc.initialStock
                                      THEN doc.initialStock ELSE @,
                   !.barcode = IF doc.barcode # loc[p].doc.barcode
                                 THEN doc.barcode ELSE @]]
           /\ Goto(p, "upd_tail", [loc[p] EXCEPT !.doc = doc])
        \/ /\ doc.barcode # loc[p].doc.barcode
           /\ BarcodeIndexClash(id, doc.barcode)
           /\ Respond(p, loc[p], "400 barcode")
           /\ UNCHANGED meds
        \/ /\ Respond(p, loc[p], "500")
           /\ UNCHANGED meds
  /\ UNCHANGED <<issuances, activity, alerts, users, now, left, faults>>

\* if (req.body.quantity && req.body.quantity > oldQuantity)
StockEntryDue(req, oldQuantity) ==
  req.hasQuantity /\ req.quantity # 0 /\ req.quantity > oldQuantity

\* logActivity, the stock_entry alert, the stock check, the response.
UpdateTail(p) ==
  /\ pc[p] = "upd_tail"
  /\ SideChannel("Update", "Medicine", loc[p].id,
       checkAndCreateStockAlerts(
         IF StockEntryDue(loc[p].req, loc[p].oldQuantity)
           THEN createMedicineAlert(<<>>, "stock_entry", loc[p].id,
                                    loc[p].doc.quantity)
           ELSE <<>>,
         loc[p].id, loc[p].doc, now, now))
  /\ Respond(p, loc[p], "200")
  /\ UNCHANGED <<meds, issuances, users, now, left>>

(* ------------------------ DELETE /medicines/:id ------------------------ *)

DeleteStart(p) ==
  /\ Accept(p)
  /\ \E m \in MedIds :
       LET l == Request("delete", m, <<>>, meds[m])
       IN IF NotFound(meds[m]) THEN Respond(p, l, "404")
          ELSE Goto(p, "del_save", l)
  /\ UNCHANGED <<meds, issuances, activity, alerts, users, now>>

\* A delete that removes the document.
DeleteSaveRemoving(p) ==
  /\ pc[p] = "del_save"
  /\ \/ /\ meds' = [meds EXCEPT ![loc[p].id] = NoMed]
        /\ Goto(p, "del_tail", [loc[p] EXCEPT !.doc.isActive = FALSE])
     \/ /\ Respond(p, loc[p], "500")
        /\ UNCHANGED meds
  /\ UNCHANGED <<issuances, activity, alerts, users, now, left, faults>>

\* medicine.isActive = false; await medicine.save()
DeleteSave(p) ==
  /\ pc[p] = "del_save"
  /\ \/ /\ meds' = [meds EXCEPT ![loc[p].id].isActive = FALSE]
        /\ Goto(p, "del_tail", [loc[p] EXCEPT !.doc.isActive = FALSE])
     \/ /\ Respond(p, loc[p], "500")
        /\ UNCHANGED meds
  /\ UNCHANGED <<issuances, activity, alerts, users, now, left, faults>>

DeleteTail(p) ==
  /\ pc[p] = "del_tail"
  /\ SideChannel("Delete", "Medicine", loc[p].id, <<>>)
  /\ Respond(p, loc[p], "200")
  /\ UNCHANGED <<meds, issuances, users, now, left>>

(* --------------------------- medicine queries -------------------------- *)

\* GET /medicines: find({ isActive: true }).
ActiveList == {m \in MedIds : meds[m].exists /\ meds[m].isActive}

\* GET /medicines/:id answers 404 unless the record is there and active.
SingleRead(m) == meds[m].exists /\ meds[m].isActive

\* GET /medicines/alerts/low-stock.
LowStockList ==
  {m \in MedIds : /\ meds[m].exists /\ meds[m].isActive
                  /\ meds[m].quantity <= meds[m].minQuantity}

\* GET /medicines/alerts/expiring.
ExpiringList ==
  {m \in MedIds : /\ meds[m].exists /\ meds[m].isActive
                  /\ meds[m].expiryDate <= now + ExpiryWindowDays
                  /\ meds[m].expiryDate > now}

(* ------------------------ expiry classifications ----------------------- *)

\* virtual isExpired: new Date() > this.expiryDate
isExpired(doc) == now > doc.expiryDate

\* virtual isExpiringSoon
isExpiringSoon(doc) ==
  doc.expiryDate <= now + ExpiryWindowDays /\ doc.expiryDate > now

\* GET /medicines?expiring=true: the list with the expiryDate filter.
ActiveListExpiring ==
  {m \in ActiveList : /\ meds[m].expiryDate <= now + ExpiryWindowDays
                      /\ meds[m].expiryDate > now}

\* GET /dashboard/stats: expiringMedicines.
DashboardExpiringCount ==
  Cardinality({m \in MedIds : /\ meds[m].exists /\ meds[m].isActive
                              /\ meds[m].expiryDate <= now + ExpiryWindowDays
                              /\ meds[m].expiryDate > now})

\* GET /reports/expiry: expired, expiryDate: { $lt: now }.
ReportExpired ==
  {m \in MedIds : /\ meds[m].exists /\ meds[m].isActive
                  /\ meds[m].expiryDate < now}

\* GET /reports/expiry: expiringSoon, expiryDate: { $gte: now, $lte:
\* thirtyDaysFromNow }.
ReportExpiringSoon ==
  {m \in MedIds : /\ meds[m].exists /\ meds[m].isActive
                  /\ meds[m].expiryDate >= now
                  /\ meds[m].expiryDate <= now + ExpiryWindowDays}

(* ------------------------------- users --------------------------------- *)

NoUser == [exists |-> FALSE, role |-> "", email |-> NoEmail]

NewUser(role, email) == [exists |-> TRUE, role |-> role, email |-> email]

Admins == {u \in UserIds : users[u].exists /\ users[u].role = "Admin"}

FreeUserIds == {u \in UserIds : ~users[u].exists}

\* findOne({ email, _id: { $ne: id } }); id 0 excludes none.
FindEmail(id, email) ==
  \E o \in UserIds : o # id /\ users[o].exists /\ users[o].email = email

UserAlertType(action) ==
  CASE action = "added" -> "user_added"
    [] action = "updated" -> "user_updated"
    [] action = "deleted" -> "user_deleted"

UserAlertSeverity(action) ==
  CASE action = "added" -> "success"
    [] action = "updated" -> "info"
    [] action = "deleted" -> "warning"

createUserAlert(store, action, userId) ==
  createAlert(store, UserAlertType(action), UserAlertSeverity(action),
              "User", userId, 0)

UserRequest(op, id, req, doc) ==
  [op |-> op, id |-> id, req |-> req, doc |-> doc, oldQuantity |-> 0,
   result |-> "pending"]

ValidUserBody(req) == req.role \in {"", "Admin", "Pharmacist"}

(* --------------------------- PUT /users/:id ---------------------------- *)

\* Validation, findById and the not-found check; the caller is an Admin.
UserUpdateStart(p) ==
  /\ Accept(p)
  /\ \E u \in UserIds, actor \in Admins, role \in BodyRoles,
        email \in Emails \cup {NoEmail} :
       LET req == [actor |-> actor, role |-> role, email |-> email]
           l == UserRequest("user_update", u, req, users[u])
       IN IF ~ValidUserBody(req) THEN Respond(p, l, "400 validation")
          ELSE IF ~users[u].exists THEN Respond(p, l, "404")
          ELSE IF email # NoEmail /\ email # users[u].email
            THEN Goto(p, "uu_email", l)
          ELSE Goto(p, "uu_save", l)
  /\ UNCHANGED <<meds, issuances, activity, alerts, users, now>>

\* The lookup of another user with the new email.
UserUpdateEmailCheck(p) ==
  /\ pc[p] = "uu_email"
  /\ IF FindEmail(loc[p].id, loc[p].req.email)
       THEN Respond(p, loc[p], "400 email")
       ELSE Goto(p, "uu_save", loc[p])
  /\ UNCHANGED <<meds, issuances, activity, alerts, users, now, left, faults>>

\* Object.assign(user, req.body); await user.save().  Saving a document that
\* is no longer in the collection fails.
UserUpdateSave(p) ==
  /\ pc[p] = "uu_save"
  /\ LET id == loc[p].id
         req == loc[p].req
         doc == [loc[p].doc EXCEPT
                   !.role = IF req.role # "" THEN req.role ELSE @,
                   !.email = IF req.email # NoEmail THEN req.email ELSE @]
     IN \/ /\ users[id].exists
           /\ users' = [users EXCEPT ![id] =
                [@ EXCEPT
                   !.role = IF doc.role # loc[p].doc.role THEN doc.role ELSE @,
                   !.email = IF doc.email # loc[p].doc.email THEN doc.email ELSE @]]
           /\ Goto(p, "uu_tail", [loc[p] EXCEPT !.doc = doc])
        \/ /\ Respond(p, loc[p], "500")
           /\ UNCHANGED users
  /\ UNCHANGED <<meds, issuances, activity, alerts, now, left, faults>>

\* logActivity, the user alert, the response.
UserUpdateTail(p) ==
  /\ pc[p] = "uu_tail"
  /\ SideChannel("Update", "User", loc[p].id,
                 createUserAlert(<<>>, "updated", loc[p].id))
  /\ Respond(p, loc[p], "200")
  /\ UNCHANGED <<meds, issuances, users, now, left>>

(* -------------------------- DELETE /users/:id -------------------------- *)

SelfDeletion(l) == l.id = l.req.actor

\* findById and the not-found check.
UserDeleteStart(p) ==
  /\ Accept(p)
  /\ \E u \in UserIds, actor \in Admins :
       LET l == UserRequest("user_delete", u, [actor |-> actor], users[u])
       IN IF ~users[u].exists THEN Respond(p, l, "404")
          ELSE IF users[u].role = "Admin" THEN Goto(p, "ud_count", l)
          ELSE IF SelfDeletion(l) THEN Respond(p, l, "400 self")
          ELSE Goto(p, "ud_remove", l)
  /\ UNCHANGED <<meds, issuances, activity, alerts, users, now>>

\* countDocuments({ role: 'Admin', _id: { $ne: user._id } }), then the
\* self-deletion check.
UserDeleteCount(p) ==
  /\ pc[p] = "ud_count"
  /\ IF Admins \ {loc[p].id} = {} THEN Respond(p, loc[p], "400 last admin")
     ELSE IF SelfDeletion(loc[p]) THEN Respond(p, loc[p], "400 self")
     ELSE Goto(p, "ud_remove", loc[p])
  /\ UNCHANGED <<meds, issuances, activity, alerts, users, now, left, faults>>

\* await User.findByIdAndDelete(id): removing an absent document is no error.
UserDeleteRemove(p) ==
  /\ pc[p] = "ud_remove"
  /\ \/ /\ users' = [users EXCEPT ![loc[p].id] = NoUser]
        /\ Goto(p, "ud_tail", loc[p])
     \/ /\ Respond(p, loc[p], "500")
        /\ UNCHANGED users
  /\ UNCHANGED <<meds, issuances, activity, alerts, now, left, faults>>

UserDeleteTail(p) ==
  /\ pc[p] = "ud_tail"
  /\ SideChannel("Delete", "User", loc[p].id,
                 createUserAlert(<<>>, "deleted", loc[p].id))
  /\ Respond(p, loc[p], "200")
  /\ UNCHANGED <<meds, issuances, users, now, left>>

(* ------------------------------ add user ------------------------------- *)

\* The route that adds a user is not among the sources; it is taken from
\* the specification: a rejected request writes nothing, an accepted one
\* stores the user, logs it and raises the user_added alert.
UserAddStart(p) ==
  /\ Accept(p)
  /\ Cardinality(FreeUserIds) > Cardinality({r \in Procs : pc[r] = "ua_save"})
  /\ \E actor \in Admins, role \in BodyRoles \ {""}, email \in Emails :
       LET req == [actor |-> actor, role |-> role, email |-> email]
           l == UserRequest("user_add", 0, req, NewUser(role, email))
       IN IF ~ValidUserBody(req) THEN Respond(p, l, "400 validation")
          ELSE IF FindEmail(0, email) THEN Respond(p, l, "400 email")
          ELSE Goto(p, "ua_save", l)
  /\ UNCHANGED <<meds, issuances, activity, alerts, users, now>>

UserAddSave(p) ==
  /\ pc[p] = "ua_save"
  /\ \/ LET id == CHOOSE u \in FreeUserIds : \A o \in FreeUserIds : u <= o
        IN /\ users' = [users EXCEPT ![id] = loc[p].doc]
           /\ Goto(p, "ua_tail", [loc[p] EXCEPT !.id = id])
     \/ /\ Respond(p, loc[p], "500")
        /\ UNCHANGED users
  /\ UNCHANGED <<meds, issuances, activity, alerts, now, left, faults>>

UserAddTail(p) ==
  /\ pc[p] = "ua_tail"
  /\ SideChannel("Add", "User", loc[p].id,
                 createUserAlert(<<>>, "added", loc[p].id))
  /\ Respond(p, loc[p], "201")
  /\ UNCHANGED <<meds, issuances, users, now, left>>

(* ------------------------------ alert store ---------------------------- *)

\* GET /alerts: find({ isActive: true }); the positions of the alerts
\* returned.
AlertList == {i \in 1..Len(alerts) : alerts[i].isActive}

\* GET /alerts/:id answers 404 unless the alert is there and active.
AlertDetails(i) == i \in 1..Len(alerts) /\ alerts[i].isActive

AlertRequest(op, i) == [op |-> op, id |-> i, req |-> <<>>]

\* A mark-read that brings a deleted alert back.
AlertMarkReadRestoring(p) ==
  /\ Accept(p)
  /\ \E i \in 1..MaxAlertId :
       IF i \in 1..Len(alerts)
         THEN /\ alerts' = [alerts EXCEPT ![i].isRead = TRUE,
                                          ![i].isActive = TRUE]
              /\ Respond(p, AlertRequest("alert_read", i), "200")
         ELSE /\ Respond(p, AlertRequest("alert_read", i), "404")
              /\ UNCHANGED alerts
  /\ UNCHANGED <<meds, issuances, activity, users, now>>

\* PATCH /alerts/:id/read: findByIdAndUpdate(id, { isRead: true }).
AlertMarkRead(p) ==
  /\ Accept(p)
  /\ \E i \in 1..MaxAlertId :
       IF i \in 1..Len(alerts)
         THEN /\ alerts' = [alerts EXCEPT ![i].isRead = TRUE]
              /\ Respond(p, AlertRequest("alert_read", i), "200")
         ELSE /\ Respond(p, AlertRequest("alert_read", i), "404")
              /\ UNCHANGED alerts
  /\ UNCHANGED <<meds, issuances, activity, users, now>>

\* PATCH /alerts/mark-all-read:
\* updateMany({ isActive: true, isRead: false }, { isRead: true }).
AlertMarkAllRead(p) ==
  /\ Accept(p)
  /\ alerts' = [i \in 1..Len(alerts) |->
                  IF alerts[i].isActive /\ ~alerts[i].isRead
                    THEN [alerts[i] EXCEPT !.isRead = TRUE]
                    ELSE alerts[i]]
  /\ Respond(p, AlertRequest("alert_read_all", 0), "200")
  /\ UNCHANGED <<meds, issuances, activity, users, now>>

\* DELETE /alerts/:id: findByIdAndUpdate(id, { isActive: false }).
AlertDelete(p) ==
  /\ Accept(p)
  /\ \E i \in 1..MaxAlertId :
       IF i \in 1..Len(alerts)
         THEN /\ alerts' = [alerts EXCEPT ![i].isActive = FALSE]
              /\ Respond(p, AlertRequest("alert_delete", i), "200")
         ELSE /\ Respond(p, AlertRequest("alert_delete", i), "404")
              /\ UNCHANGED alerts
  /\ UNCHANGED <<meds, issuances, activity, users, now>>

\* A day passes.
Tick ==
  /\ now < MaxNow
  /\ now' = now + 1
  /\ UNCHANGED <<meds, issuances, activity, alerts, users, pc, loc, left, faults>>

\* The store's expiry sweep over the index { expiresAt: 1 } with
\* expireAfterSeconds: 0: a background task of the store that, whenever it
\* runs, removes the alerts whose expiresAt has been reached.
TtlSweep ==
  /\ \E i \in 1..Len(alerts) : alerts[i].expiresAt <= now
  /\ alerts' = SelectSeq(alerts, LAMBDA a : a.expiresAt > now)
  /\ UNCHANGED <<meds, issuances, activity, users, pc, loc, now, left, faults>>

(* ------------------------- the stock check alone ----------------------- *)

\* One pass of checkAndCreateStockAlerts over the stored medicine 1.  The
\* pass reads the clock for the expiring check and again for the expired
\* check; when the expiring alert was due its save is awaited in between,
\* and the clock may have moved on.
StockCheckPass ==
  /\ alerts = <<>>
  /\ \E t2 \in now..(now + MaxPassDelay) :
       /\ t2 > now => ExpiringDue(meds[1], now)
       /\ alerts' = checkAndCreateStockAlerts(<<>>, 1, meds[1], now, t2)
       /\ now' = t2
  /\ UNCHANGED <<meds, issuances, activity, users, pc, loc, left, faults>>

(* --------------------------- specifications ---------------------------- *)

\* A database that holds one medicine as an add-medicine request leaves it
\* (quantity = initialStock, active), and an empty ledger.
Database ==
  /\ \E b \in Barcodes \cup {NoBarcode} :
       meds = [m \in MedIds |->
                 IF m = 1
                   THEN SeedMedicine(b)
                   ELSE NoMed]
  /\ issuances = <<>>
  /\ activity = <<>>
  /\ alerts = <<>>
  /\ users = [u \in UserIds |->
                IF u = 1 THEN NewUser("Admin", "a@x")
                ELSE IF u = 2 THEN NewUser("Admin", "b@x")
                ELSE IF u = 3 THEN NewUser("Pharmacist", "c@x")
                ELSE NoUser]
  /\ pc = [p \in Procs |-> "idle"]
  /\ loc = [p \in Procs |-> InitLoc]
  /\ now = 0

Init == Database /\ left = MaxOps /\ faults = 0

RaceInit == Database /\ left = MaxRaceOps /\ faults = 0

IssueStep(p) ==
  \/ IssueStart(p)
  \/ IssueSaveIssuance(p)
  \/ IssueSaveMedicine(p)
  \/ IssueTail(p)

UpdateStep(p) ==
  \/ UpdateStart(p)
  \/ UpdateBarcodeCheck(p)
  \/ UpdateSave(p)
  \/ UpdateTail(p)

CreateStep(p) ==
  \/ CreateStart(p)
  \/ CreateSave(p)
  \/ CreateTail(p)

DeleteStep(p) ==
  \/ DeleteStart(p)
  \/ DeleteSave(p)
  \/ DeleteTail(p)

Step(p) == IssueStep(p) \/ UpdateStep(p) \/ CreateStep(p) \/ DeleteStep(p)

Next == \E p \in Procs : Step(p)

Spec == Init /\ [][Next]_vars

\* One request at a time: a single worker.
Worker == "p1"

SeqNext == Step(Worker)

SeqSpec == Init /\ [][SeqNext]_vars

\* User administration requests only.
UserStep(p) ==
  \/ UserUpdateStart(p)
  \/ UserUpdateEmailCheck(p)
  \/ UserUpdateSave(p)
  \/ UserUpdateTail(p)
  \/ UserDeleteStart(p)
  \/ UserDeleteCount(p)
  \/ UserDeleteRemove(p)
  \/ UserDeleteTail(p)
  \/ UserAddStart(p)
  \/ UserAddSave(p)
  \/ UserAddTail(p)

UserNext == \E p \in Procs : UserStep(p)

UserSpec == Init /\ [][UserNext]_vars

\* Delete-user requests only, interleaved.
UserDeleteStep(p) ==
  \/ UserDeleteStart(p)
  \/ UserDeleteCount(p)
  \/ UserDeleteRemove(p)
  \/ UserDeleteTail(p)

UserDeleteNext == \E p \in Procs : UserDeleteStep(p)

UserDeleteSpec == Init /\ [][UserDeleteNext]_vars

\* Restock and issue requests only, three of them.
RaceNext == \E p \in Procs : IssueStep(p) \/ UpdateStep(p)

RaceSpec == RaceInit /\ [][RaceNext]_vars

\* One request at a time, medicine and user requests alike, in a run in
\* which side-channel saves may fail.
FaultInit == Database /\ left = MaxFaultOps /\ faults = MaxFaults

FaultNext == Step(Worker) \/ UserStep(Worker)

FaultSpec == FaultInit /\ [][FaultNext]_vars

\* Issue requests and requests on alerts, one at a time, the clock and the
\* store's expiry sweep.
AlertInit == Database /\ left = MaxAlertOps /\ faults = 0

AlertStep(p) == AlertMarkRead(p) \/ AlertMarkAllRead(p) \/ AlertDelete(p)

AlertNext == IssueStep(Worker) \/ AlertStep(Worker) \/ Tick \/ TtlSweep

AlertSpec == AlertInit /\ [][AlertNext]_vars

\* The stock check by itself, on every record and clock reading of the
\* policy sets.
PolicyInit ==
  /\ \E q \in PolicyQtys, mq \in PolicyMinQtys, e \in PolicyExpiries :
       meds = [m \in MedIds |->
                 IF m = 1 THEN NewMedicine(q, q, mq, e, NoBarcode) ELSE NoMed]
  /\ now \in PolicyNows
  /\ issuances = <<>>
  /\ activity = <<>>
  /\ alerts = <<>>
  /\ users = [u \in UserIds |-> NoUser]
  /\ pc = [p \in Procs |-> "idle"]
  /\ loc = [p \in Procs |-> InitLoc]
  /\ left = 0
  /\ faults = 0

PolicyNext == StockCheckPass

PolicySpec == PolicyInit /\ [][PolicyNext]_vars

(* ------------------------------ properties ----------------------------- *)

RECURSIVE LedgerSumUpTo(_, _)
LedgerSumUpTo(m, k) ==
  IF k = 0 THEN 0
  ELSE LedgerSumUpTo(m, k - 1)
       + (IF issuances[k].medicineId = m THEN issuances[k].quantityIssued ELSE 0)

\* Total quantity the ledger records as issued from medicine m.
LedgerSum(m) == LedgerSumUpTo(m, Len(issuances))

\* The alerts a step appends.
NewAlerts == SubSeq(alerts', Len(alerts) + 1, Len(alerts'))

Finished(p, op, res) ==
  pc[p] = "idle" /\ loc[p].op = op /\ loc[p].result = res

\* C1: when the only two requests of a run are issue requests of q1 and q2
\* against the same medicine with on-hand n (its initial stock, which issue
\* requests leave alone), q1 <= n, q2 <= n and q1 + q2 > n, at most one of
\* them ends with 201.
C1_AtMostOneConcurrentIssueSucceeds ==
  \A p1, p2 \in Procs :
    ( /\ p1 # p2
      /\ left = MaxOps - 2
      /\ Finished(p1, "issue", "201")
      /\ Finished(p2, "issue", "201")
      /\ loc[p1].id = loc[p2].id )
    => LET n == meds[loc[p1].id].initialStock
           q1 == loc[p1].req.quantityIssued
           q2 == loc[p2].req.quantityIssued
       IN ~(q1 <= n /\ q2 <= n /\ q1 + q2 > n)

\* The steps of an issue request, one request at a time.
C2_IssueStep ==
  LET p == Worker
  IN /\ ( /\ pc[p] = "idle" /\ left' < left /\ loc'[p].op = "issue"
          /\ loc'[p].req.quantityIssued >= 1
          /\ meds[loc'[p].id].exists /\ meds[loc'[p].id].isActive
          /\ meds[loc'[p].id].expiryDate > now )
        => LET q == loc'[p].req.quantityIssued
               n == meds[loc'[p].id].quantity
           IN /\ q <= n => pc'[p] = "iss_save"
              /\ q > n => /\ pc'[p] = "idle"
                          /\ loc'[p].result = "400 insufficient"
                          /\ meds' = meds /\ issuances' = issuances
     /\ (pc[p] = "iss_med" /\ pc'[p] = "iss_tail")
        => LET id == loc[p].id
               q == loc[p].req.quantityIssued
           IN /\ meds[id].quantity = loc[p].oldQuantity
              /\ meds'[id].quantity = meds[id].quantity - q
              /\ meds'[id].initialStock = meds[id].initialStock
     /\ pc[p] = "iss_tail"
        => /\ pc'[p] = "idle" /\ loc'[p].result = "201" /\ meds' = meds
           /\ meds[loc[p].id].quantity
                = loc[p].oldQuantity - loc[p].req.quantityIssued
     /\ (pc[p] \in {"iss_save", "iss_med"} /\ pc'[p] = "idle")
        => loc'[p].result = "500"

\* C2: with one request at a time, an issue of q >= 1 against an active,
\* unexpired medicine with on-hand n is accepted when q <= n, its medicine
\* write leaves on-hand n - q and the initial stock as it was, and it ends
\* with 201 (500 if a store write fails); when q > n it is rejected as
\* insufficient stock and the stores are unchanged.
C2_SequentialIssue == [][C2_IssueStep]_vars

\* An issue was rejected as insufficient after an earlier one had succeeded
\* and left on-hand n - q.
C2_Witness ==
  /\ Finished(Worker, "issue", "400 insufficient")
  /\ Len(issuances) = 1
  /\ meds[1].quantity = meds[1].initialStock - issuances[1].quantityIssued
  /\ loc[Worker].req.quantityIssued > meds[1].quantity

\* C3: every medicine record has quantity >= 0 in every reachable state.
C3_QuantityNonNegative == \A m \in MedIds : meds[m].quantity >= 0

\* Two issue requests that both read the same on-hand quantity have both
\* written their decrement.
C3_Witness ==
  /\ Len(issuances) = 2
  /\ issuances[1].medicineId = issuances[2].medicineId
  /\ LedgerSum(issuances[1].medicineId) > meds[issuances[1].medicineId].initialStock
  /\ \A p \in Procs : Finished(p, "issue", "201")

\* A step that appends to the ledger finds the stored medicine fit for it.
C4_WriteStep ==
  Len(issuances') > Len(issuances)
  => LET r == issuances'[Len(issuances')]
         med == meds[r.medicineId]
     IN /\ med.exists /\ med.isActive
        /\ med.expiryDate > now
        /\ med.quantity >= r.quantityIssued

\* C4: whenever an issuance record is written, the stored medicine it
\* refers to is active, not expired and holds at least the quantity issued.
C4_IssuanceWrittenOnValidStock == [][C4_WriteStep]_vars

\* C5: with one request at a time, no state holds an issuance record whose
\* decrement is not in the stored quantity: what the ledger records as
\* issued from a medicine never exceeds its stock-out.
C5_LedgerEntryAfterDecrement ==
  \A m \in MedIds : LedgerSum(m) <= stockOut(meds[m])

\* Every request of the run is over and ended with success.
AllSucceeded ==
  /\ \A p \in Procs : pc[p] = "idle" /\ loc[p].result \in {"none", "200", "201"}
  /\ left = MaxOps - Cardinality({p \in Procs : loc[p].op # "none"})

\* C6: whenever no request is in flight, the stock-out of every medicine
\* equals the total quantity the ledger records as issued from it; stated
\* here for the runs in which no request failed.
C6_StockOutEqualsIssued ==
  AllSucceeded => \A m \in MedIds : stockOut(meds[m]) = LedgerSum(m)

\* C7: every medicine has quantity <= initialStock, so that stockOut is
\* never negative.
C7_StockOutNonNegative ==
  \A m \in MedIds : meds[m].quantity <= meds[m].initialStock

\* The steps of an update and the save of a create, one request at a time.
C8_RestockStep ==
  LET p == Worker
      saves == pc[p] = "upd_save" /\ pc'[p] = "upd_tail"
  IN /\ saves
        => LET id == loc[p].id
               tenths == loc[p].req.stockToAdd
           IN /\ stockOut(meds'[id]) = stockOut(meds[id])
              /\ (tenths > 0 /\ tenths % 10 = 0)
                 => /\ 10 * meds'[id].quantity = 10 * meds[id].quantity + tenths
                    /\ 10 * meds'[id].initialStock
                         = 10 * meds[id].initialStock + tenths
              /\ tenths <= 0
                 => /\ meds'[id].quantity = meds[id].quantity
                    /\ meds'[id].initialStock = meds[id].initialStock
     /\ (loc'[p].op = "update" /\ ~saves)
        => \A m \in MedIds :
             /\ meds'[m].quantity = meds[m].quantity
             /\ meds'[m].initialStock = meds[m].initialStock
     /\ (pc[p] = "cr_save" /\ pc'[p] = "cr_tail")
        => /\ ~meds[loc'[p].id].exists
           /\ meds'[loc'[p].id].quantity = loc[p].req.quantity
           /\ meds'[loc'[p].id].initialStock = loc[p].req.quantity

\* C8: with one request at a time, the save of an update with a whole
\* stock-delta d > 0 adds d to both quantity and initialStock; the save of
\* an update with any stock-delta keeps initialStock - quantity, and without
\* a positive one leaves both fields as they were, whatever else the request
\* carries; every other step of an update leaves quantity and initialStock
\* of every medicine as they were; the save of a create stores
\* initialStock = quantity = the quantity of the request.
C8_RestockAndCreate == [][C8_RestockStep]_vars

\* A restock of three units, carrying a quantity field as well, has raised
\* quantity and initialStock together.
C8_Witness ==
  /\ Finished(Worker, "update", "200")
  /\ loc[Worker].req.stockToAdd = 30
  /\ loc[Worker].req.hasQuantity
  /\ meds[loc[Worker].id].quantity = 5
  /\ meds[loc[Worker].id].initialStock = 5

\* The stock_entry alerts a step of an update appends.
C9_StockEntryStep ==
  LET p == Worker
  IN loc'[p].op = "update"
     => LET raised == pc[p] = "upd_tail" /\ loc[p].doc.quantity > loc[p].oldQuantity
            entries == {i \in 1..Len(NewAlerts) : NewAlerts[i].type = "stock_entry"}
        IN IF raised
             THEN /\ entries = {1}
                  /\ NewAlerts[1].severity = "info"
                  /\ NewAlerts[1].info = meds[loc[p].id].quantity
             ELSE entries = {}

\* C9: with one request at a time, an update that has raised the on-hand
\* quantity above the quantity it read appends exactly one stock_entry
\* (info) alert reporting the new quantity, ahead of the stock-check
\* alerts; every other step of an update appends no stock_entry alert.
C9_StockEntryOnIncrease == [][C9_StockEntryStep]_vars

ExpectedUserAlertType(op) ==
  CASE op = "user_add" -> "user_added"
    [] op = "user_update" -> "user_updated"
    [] op = "user_delete" -> "user_deleted"

ExpectedUserAlertSeverity(op) ==
  CASE op = "user_add" -> "success"
    [] op = "user_update" -> "info"
    [] op = "user_delete" -> "warning"

\* The alerts a step of a user operation stores.
C10_UserAlertStep ==
  IF \E p \in Procs :
       pc[p] # "idle" /\ pc'[p] = "idle" /\ loc'[p].result \in {"200", "201"}
    THEN \A p \in Procs :
           (pc[p] # "idle" /\ pc'[p] = "idle")
           => /\ Len(NewAlerts) = 1
              /\ NewAlerts[1].type = ExpectedUserAlertType(loc[p].op)
              /\ NewAlerts[1].severity = ExpectedUserAlertSeverity(loc[p].op)
              /\ NewAlerts[1].entityType = "User"
              /\ NewAlerts[1].entityId = loc[p].id
    ELSE alerts' = alerts

\* C10: the step that ends a user operation with success stores exactly
\* one alert, of the type and severity of the operation; every other step
\* of a user operation, rejections and failures included, stores none.
C10_OneAlertPerUserOperation == [][C10_UserAlertStep]_vars

\* How many of the alerts a step appends have the given type and severity.
Emitted(type, severity) ==
  Cardinality({i \in 1..Len(NewAlerts) :
                 NewAlerts[i].type = type /\ NewAlerts[i].severity = severity})

\* A pass of the stock check, judged by the record and the time at which
\* the pass began.
C11_PassStep ==
  LET doc == meds[1]
      low == doc.quantity <= doc.minQuantity
      expiring == now < doc.expiryDate /\ doc.expiryDate <= now + 30
      expired == doc.expiryDate <= now
      N(b) == IF b THEN 1 ELSE 0
  IN /\ Emitted("stock_low", "warning") = N(low)
     /\ Emitted("medicine_expiring", "warning") = N(expiring)
     /\ Emitted("medicine_expired", "danger") = N(expired)
     /\ Len(NewAlerts) = N(low) + N(expiring) + N(expired)
     /\ Emitted("medicine_expiring", "warning")
          + Emitted("medicine_expired", "danger") <= 1

\* C11: a pass of the stock check emits exactly one stock_low (warning)
\* iff quantity <= minQuantity, one medicine_expiring (warning) iff
\* now < expiryDate <= now + 30 days, one medicine_expired (danger) iff
\* expiryDate <= now, and nothing else; it never emits medicine_expiring
\* and medicine_expired together.
C11_StockCheckClassification == [][C11_PassStep]_vars

\* The step of a create, update or issue that runs its side-channel writes.
InTail(p) == pc[p] \in {"cr_tail", "upd_tail", "iss_tail"}

\* The stock_low alerts of a step of one request at a time, judged by the
\* stored record the mutation has left.
C12_LowStockStep ==
  LET p == Worker
      doc == meds[loc[p].id]
      lows == {i \in 1..Len(NewAlerts) : NewAlerts[i].type = "stock_low"}
  IN /\ SubSeq(alerts', 1, Len(alerts)) = alerts
     /\ IF InTail(p) /\ doc.quantity <= doc.minQuantity
          THEN /\ Cardinality(lows) = 1
               /\ \A i \in lows :
                    /\ NewAlerts[i].severity = "warning"
                    /\ NewAlerts[i].entityId = loc[p].id
                    /\ NewAlerts[i].info = doc.quantity
          ELSE lows = {}

\* C12: with one request at a time, the side-channel step of a create,
\* update or issue that has left the medicine with quantity <= minQuantity
\* (quantity = minQuantity included) appends exactly one stock_low alert,
\* whatever stock_low alerts the store already holds, and no stored alert
\* is dropped or replaced; every other step appends none.
C12_OneLowStockPerMutation == [][C12_LowStockStep]_vars

\* Two mutations in a row have each left medicine 1 at quantity =
\* minQuantity, and the store holds a stock_low alert for each.
C12_Witness ==
  /\ left = 0
  /\ pc[Worker] = "idle"
  /\ meds[1].quantity = meds[1].minQuantity
  /\ Len(activity) = 2
  /\ Cardinality({i \in 1..Len(alerts) :
                     /\ alerts[i].type = "stock_low"
                     /\ alerts[i].entityId = 1
                     /\ alerts[i].info = meds[1].minQuantity}) = 2

\* The alerts of the steps of an issue, one request at a time.
C13_IssueAlertStep ==
  LET p == Worker
      doc == meds[loc[p].id]
      q == loc[p].req.quantityIssued
  IN loc'[p].op = "issue"
     => IF pc[p] = "iss_tail"
          THEN /\ loc'[p].result = "201"
               /\ doc.quantity = loc[p].oldQuantity - q
               /\ Len(NewAlerts) >= 1
               /\ NewAlerts[1].type = "medicine_issued"
               /\ NewAlerts[1].severity = "info"
               /\ NewAlerts[1].entityId = loc[p].id
               /\ NewAlerts[1].info = q
               /\ Emitted("medicine_issued", "info") = 1
               /\ IF doc.quantity <= doc.minQuantity
                    THEN /\ Len(NewAlerts) >= 2
                         /\ NewAlerts[2].type = "stock_low"
                         /\ NewAlerts[2].info = loc[p].oldQuantity - q
                         /\ Emitted("stock_low", "warning") = 1
                    ELSE Emitted("stock_low", "warning") = 0
          ELSE alerts' = alerts

\* C13: with one request at a time, the side-channel step of a successful
\* issue appends exactly one medicine_issued (info) alert naming the
\* quantity issued, and after it the alerts of the stock check on the
\* quantity left after the deduction: a stock_low reporting that quantity
\* when it is <= minQuantity and none when it is above; no other step of an
\* issue appends an alert.
C13_IssuedThenStockCheck == [][C13_IssueAlertStep]_vars

\* An issue from on-hand 2 under threshold 3 has raised medicine_issued
\* followed by a stock_low reporting on-hand 1.
C13_Witness ==
  /\ Finished(Worker, "issue", "201")
  /\ Len(alerts) = 2
  /\ alerts[1].type = "medicine_issued" /\ alerts[1].info = 1
  /\ alerts[2].type = "stock_low" /\ alerts[2].info = 1
  /\ meds[1].minQuantity = 3

\* The alerts of the steps of a create, one request at a time.
C14_CreateAlertStep ==
  LET p == Worker
      doc == meds[loc[p].id]
      N(b) == IF b THEN 1 ELSE 0
      low == doc.quantity <= doc.minQuantity
      expiring == now < doc.expiryDate /\ doc.expiryDate <= now + 30
      expired == doc.expiryDate <= now
  IN loc'[p].op = "create"
     => IF pc[p] = "cr_tail"
          THEN /\ loc'[p].result = "201"
               /\ doc.exists /\ doc.isActive
               /\ doc.quantity = loc[p].req.quantity
               /\ Len(NewAlerts) = 1 + N(low) + N(expiring) + N(expired)
               /\ NewAlerts[1].type = "medicine_added"
               /\ NewAlerts[1].severity = "success"
               /\ NewAlerts[1].entityId = loc[p].id
               /\ Emitted("medicine_added", "success") = 1
               /\ Emitted("stock_low", "warning") = N(low)
               /\ low => NewAlerts[2].type = "stock_low"
               /\ Emitted("medicine_expiring", "warning") = N(expiring)
               /\ Emitted("medicine_expired", "danger") = N(expired)
          ELSE alerts' = alerts

\* C14: with one request at a time, the side-channel step of a successful
\* create appends exactly one medicine_added (success) alert and after it
\* the alerts of the stock check on the record just created (stock_low
\* first when quantity <= minQuantity); every other step of a create, the
\* rejection for a validation error or a duplicate barcode included,
\* appends no alert.
C14_AddedThenStockCheck == [][C14_CreateAlertStep]_vars

\* A create with quantity at the threshold has raised medicine_added
\* followed by stock_low; the other request of the run was rejected and
\* left no alert.
C14_Witness ==
  /\ Finished(Worker, "create", "201")
  /\ left = 0
  /\ Len(activity) = 1
  /\ Len(alerts) = 2
  /\ alerts[1].type = "medicine_added"
  /\ alerts[2].type = "stock_low"
  /\ alerts[2].entityId = loc[Worker].id
  /\ meds[loc[Worker].id].quantity = meds[loc[Worker].id].minQuantity

\* The alert saves the side-channel step of a request attempts with a
\* document the alert schema accepts.
AlertsAttempted(p) ==
  LET op == loc[p].op
      doc == meds[loc[p].id]
      N(b) == IF b THEN 1 ELSE 0
      policy == N(doc.quantity <= doc.minQuantity)
                + N(now < doc.expiryDate /\ doc.expiryDate <= now + 30)
                + N(doc.expiryDate <= now)
  IN CASE op \in {"issue", "create"} -> 1 + policy
       [] op = "update" ->
            N(StockEntryDue(loc[p].req, loc[p].oldQuantity)) + policy
       [] op = "delete" -> 0
       [] op \in {"user_add", "user_delete"} -> 1
       [] op = "user_update" -> 0

\* The side-channel step of a request, in a run where saves of alerts and
\* of activity-log entries may fail.
C15_SideChannelStep ==
  LET p == Worker
      written == (Len(activity') - Len(activity)) + Len(NewAlerts)
      failed == faults - faults'
  IN pc[p] \in {"iss_tail", "cr_tail", "upd_tail", "del_tail",
                "uu_tail", "ud_tail", "ua_tail"}
     => /\ meds' = meds /\ issuances' = issuances /\ users' = users
        /\ pc'[p] = "idle"
        /\ loc'[p].result \in {"200", "201"}
        /\ SubSeq(activity', 1, Len(activity)) = activity
        /\ SubSeq(alerts', 1, Len(alerts)) = alerts
        /\ written = 1 + AlertsAttempted(p) - failed

\* C15: with one request at a time, in the side-channel step of a create,
\* update, issue, soft delete or user operation any of the activity-log and
\* alert saves may fail, and still the medicine, ledger and user stores
\* stay as the primary write left them, the request ends with success, and
\* every save that did not fail itself is written: the number of records
\* written is the number attempted less the number that failed.
C15_SideChannelFailuresContained == [][C15_SideChannelStep]_vars

\* An issue ended with 201 although the activity-log entry and the
\* medicine_issued alert both failed; the deduction, the ledger record and
\* the stock_low alert that came after the failures are there.
C15_Witness ==
  /\ Finished(Worker, "issue", "201")
  /\ faults = 0
  /\ activity = <<>>
  /\ Len(issuances) = 1
  /\ meds[1].quantity = meds[1].initialStock - issuances[1].quantityIssued
  /\ Len(alerts) = 1
  /\ alerts[1].type = "stock_low"

\* The answers that reject a request: validation error, business-rule
\* violation, not found.
Rejections ==
  {"400 validation", "400 barcode", "400 insufficient", "400 expired", "404"}

\* The four stores are as they were.
StoresUnchanged ==
  /\ meds' = meds
  /\ issuances' = issuances
  /\ activity' = activity
  /\ alerts' = alerts

\* A step that rejects a medicine request, and the steps a request takes
\* before it can be rejected.
C16_RejectionStep ==
  \A p \in Procs :
    /\ ( /\ pc'[p] = "idle"
         /\ pc[p] # "idle" \/ left' < left
         /\ loc'[p].result \in Rejections )
       => /\ StoresUnchanged
          /\ pc[p] \in {"idle", "upd_bc", "upd_save", "cr_save"}
    /\ ( /\ pc'[p] \in {"upd_bc", "upd_save", "cr_save"}
         /\ pc'[p] # pc[p] )
       => /\ StoresUnchanged
          /\ pc[p] \in {"idle", "upd_bc"}

\* C16: under any interleaving, the step that rejects a request for a
\* validation error, a duplicate barcode, insufficient stock, an expired
\* medicine or a missing or soft-deleted medicine changes none of the four
\* stores, and neither does any step the request took before it: a
\* rejected request has written no medicine field, no issuance record, no
\* activity-log entry and no alert.
C16_RejectionWritesNothing == [][C16_RejectionStep]_vars

\* An update was rejected at its barcode lookup, one step after it had
\* read the record; the stores hold what the create of the run wrote.
C16_Witness ==
  \E p \in Procs :
    /\ Finished(p, "update", "400 barcode")
    /\ left = 0
    /\ \A r \in Procs : pc[r] = "idle"
    /\ Len(activity) = 1
    /\ activity[1].actionType = "Add"
    /\ issuances = <<>>
    /\ meds[loc[p].id].barcode = NoBarcode
    /\ meds[loc[p].id].quantity = meds[loc[p].id].initialStock

\* The answer to a create, one request at a time.
C17_CreateAnswerStep ==
  LET p == Worker
  IN ( /\ loc'[p].op = "create"
       /\ pc'[p] = "idle"
       /\ pc[p] # "idle" \/ left' < left
       /\ loc'[p].result = "400 barcode" )
     => FindActiveBarcode(0, loc'[p].req.barcode)

\* C17: with one request at a time, a create is rejected for its barcode
\* only when an active record holds that barcode; a barcode held only by
\* soft-deleted records does not block the create.
C17_CreateBarcodeScopedToActive == [][C17_CreateAnswerStep]_vars

\* No two active records carry the same barcode.
UniqueActiveBarcodes ==
  \A m, o \in MedIds :
    ( /\ m # o
      /\ meds[m].exists /\ meds[m].isActive
      /\ meds[o].exists /\ meds[o].isActive
      /\ meds[m].barcode # NoBarcode )
    => meds[m].barcode # meds[o].barcode

\* Barcodes after a step, and the barcode handling of the steps of an
\* update.
C18_BarcodeStep ==
  /\ UniqueActiveBarcodes'
  /\ \A p \in Procs :
       /\ (pc[p] = "idle" /\ pc'[p] # "idle" /\ loc'[p].op = "update")
          => LET b == loc'[p].req.barcode
                 own == meds[loc'[p].id].barcode
             IN IF b # NoBarcode /\ b # own
                  THEN pc'[p] = "upd_bc"
                  ELSE pc'[p] = "upd_save"
       /\ (pc[p] = "upd_bc" /\ pc'[p] # pc[p])
          => IF \E o \in MedIds :
                  /\ o # loc[p].id
                  /\ meds[o].exists /\ meds[o].isActive
                  /\ meds[o].barcode = loc[p].req.barcode
               THEN /\ pc'[p] = "idle"
                    /\ loc'[p].result = "400 barcode"
                    /\ meds' = meds
               ELSE pc'[p] = "upd_save"
       /\ ( /\ pc[p] = "upd_save" /\ pc'[p] # pc[p]
            /\ loc[p].req.barcode \in {NoBarcode, loc[p].doc.barcode} )
          => /\ pc'[p] = "idle" => loc'[p].result = "500"
             /\ \A m \in MedIds : meds'[m].barcode = meds[m].barcode

\* C18: under any interleaving of create, update, issue and delete, after
\* every step no two active records carry the same barcode; an update
\* whose barcode differs from the record's own goes through the lookup and
\* is rejected there when another active record holds it; an update that
\* carries the record's own barcode, or none, skips the lookup and is
\* never rejected for its barcode.
C18_ActiveBarcodesUnique == [][C18_BarcodeStep]_vars

\* Two active records; an update that asked for the barcode of the other
\* one was rejected.
C18_Witness ==
  \E p \in Procs :
    /\ Finished(p, "update", "400 barcode")
    /\ loc[p].id = 2
    /\ loc[p].req.barcode = meds[1].barcode
    /\ meds[1].isActive /\ meds[2].exists /\ meds[2].isActive
    /\ meds[2].barcode = NoBarcode

\* Request p is the one that takes the step.
Acts(p) == pc'[p] # pc[p] \/ loc'[p] # loc[p]

\* The steps of a soft delete, the queries after any step, and the answer
\* to a request that arrives for a record that is not active.
C19_SoftDeleteStep ==
  /\ \A p \in Procs :
       /\ (pc[p] = "del_save" /\ pc'[p] = "del_tail")
          => /\ meds' = [meds EXCEPT ![loc[p].id].isActive = FALSE]
             /\ issuances' = issuances
             /\ activity' = activity
             /\ alerts' = alerts
       /\ (pc[p] = "del_tail" /\ Acts(p))
          => /\ meds' = meds
             /\ issuances' = issuances
             /\ alerts' = alerts
             /\ Len(activity') = Len(activity) + 1
             /\ SubSeq(activity', 1, Len(activity)) = activity
             /\ activity'[Len(activity')].actionType = "Delete"
             /\ activity'[Len(activity')].entityId = loc[p].id
             /\ loc'[p].result = "200"
       /\ ( /\ pc[p] = "idle" /\ Acts(p)
            /\ loc'[p].op \in {"issue", "update", "delete"}
            /\ ~meds[loc'[p].id].isActive
            /\ loc'[p].op = "issue" => loc'[p].req.quantityIssued >= 1 )
          => /\ pc'[p] = "idle"
             /\ loc'[p].result = "404"
             /\ StoresUnchanged
  /\ \A m \in MedIds :
       (meds'[m].exists /\ ~meds'[m].isActive)
       => /\ m \notin ActiveList'
          /\ ~SingleRead(m)'
          /\ m \notin LowStockList'
          /\ m \notin ExpiringList'

\* C19: under any interleaving, the save of a soft delete sets isActive to
\* false on its record and changes nothing else in the four stores, and its
\* last step appends one activity-log entry and changes nothing else; after
\* every step a record that is not active is in none of the active list,
\* the single-record read, the low-stock list and the expiring list; an
\* issue, update or delete that arrives for such a record is answered
\* not-found and changes nothing.
C19_SoftDeleteFrame == [][C19_SoftDeleteStep]_vars

\* Medicine 1 was soft-deleted with its quantities intact, and the issue
\* that arrived for it afterwards was answered not-found.
C19_Witness ==
  \E p, r \in Procs :
    /\ Finished(p, "delete", "200")
    /\ Finished(r, "issue", "404")
    /\ loc[p].id = 1 /\ loc[r].id = 1
    /\ meds[1].exists /\ ~meds[1].isActive
    /\ meds[1].quantity = 2 /\ meds[1].initialStock = 2
    /\ Len(activity) = 1
    /\ issuances = <<>>

\* C20: every stored alert has expiresAt = its creation time + 7 days, and
\* an alert that the alert list or the alert-details query returns is not
\* older than that: the time is not later than its creation time + 7 days.
C20_ExpiredAlertsUnreachable ==
  \A i \in 1..Len(alerts) :
    /\ alerts[i].expiresAt = alerts[i].createdAt + 7
    /\ (i \in AlertList \/ AlertDetails(i)) => now <= alerts[i].createdAt + 7

\* Sequence s is the beginning of sequence t.
IsPrefix(s, t) == Len(s) <= Len(t) /\ SubSeq(t, 1, Len(s)) = s

\* C21: under any interleaving of create, update, issue and soft delete,
\* every step leaves each record of the issuance ledger and each entry of
\* the activity log where it was and as it was; the two stores change only
\* by records added at the end.
C21_LedgerAndLogAppendOnly ==
  [][IsPrefix(issuances, issuances') /\ IsPrefix(activity, activity')]_vars

\* Two issues are in the ledger and in the activity log, the first of them
\* as it was written.
C21_Witness ==
  /\ Len(issuances) = 2
  /\ Len(activity) = 2
  /\ issuances[1].quantityIssued = 1
  /\ issuances[2].quantityIssued = 1
  /\ activity[1].actionType = "Issue"
  /\ meds[1].quantity = 0
  /\ \A p \in Procs : pc[p] = "idle"

\* C22: at every clock reading every active medicine is put in the same
\* class by all the places that classify it: the stock check, the derived
\* isExpired / isExpiringSoon attributes and the expiry report agree on
\* expired; the stock check, the attributes, the list's expiring filter,
\* the expiring query, the dashboard count and the expiry report agree on
\* expiring-soon.
C22_SameClassificationEverywhere ==
  /\ \A m \in ActiveList :
       LET doc == meds[m]
           expired == ExpiredDue(doc, now)
           expiring == ExpiringDue(doc, now)
       IN /\ isExpired(doc) = expired
          /\ (m \in ReportExpired) = expired
          /\ isExpiringSoon(doc) = expiring
          /\ (m \in ActiveListExpiring) = expiring
          /\ (m \in ExpiringList) = expiring
          /\ (m \in ReportExpiringSoon) = expiring
  /\ DashboardExpiringCount
       = Cardinality({m \in ActiveList : ExpiringDue(meds[m], now)})

\* A step in which a stored quantity becomes smaller.
C23_DecreaseStep ==
  \A m \in MedIds :
    (meds[m].exists /\ meds'[m].quantity < meds[m].quantity)
    => \E p \in Procs :
         /\ pc[p] = "iss_med" /\ pc'[p] = "iss_tail"
         /\ loc[p].id = m
         /\ meds[m].quantity - meds'[m].quantity = loc[p].req.quantityIssued

\* C23: under any interleaving, a step that lowers the stored quantity of
\* a medicine is the medicine write of an issue of that medicine and
\* lowers it by exactly the quantity issued; the writes of create, update
\* and soft delete never lower a stored quantity.
C23_OnlyIssuanceDecreases == [][C23_DecreaseStep]_vars

\* A step on a record whose stored isActive is false.
C24_InactiveStep ==
  \A m \in MedIds :
    (meds[m].exists /\ ~meds[m].isActive)
    => /\ meds'[m].exists
       /\ meds'[m].isActive = meds[m].isActive
       /\ meds'[m].quantity = meds[m].quantity
       /\ meds'[m].initialStock = meds[m].initialStock

\* C24: under any interleaving, once the stored isActive of a medicine is
\* false no step changes its isActive, quantity or initialStock, the
\* medicine write of an issue or update that read the record while it was
\* active included.
C24_InactiveIsTerminal == [][C24_InactiveStep]_vars

\* The fields of an alert that no request writes.
SameContent(a, b) ==
  /\ a.type = b.type /\ a.severity = b.severity
  /\ a.entityType = b.entityType /\ a.entityId = b.entityId
  /\ a.info = b.info
  /\ a.createdAt = b.createdAt /\ a.expiresAt = b.expiresAt

\* The request on alerts that a step serves, if any.
Serves(op) ==
  pc[Worker] = "idle" /\ left' < left /\ loc'[Worker].op = op

C25_AlertStep ==
  \/ Len(alerts') < Len(alerts)
  \/ /\ \A i \in 1..Len(alerts) :
          /\ SameContent(alerts[i], alerts'[i])
          /\ alerts[i].isRead => alerts'[i].isRead
          /\ alerts'[i].isActive => alerts[i].isActive
     /\ Serves("alert_read") =>
          /\ Len(alerts') = Len(alerts)
          /\ \A i \in 1..Len(alerts) :
               /\ alerts'[i].isActive = alerts[i].isActive
               /\ alerts'[i].isRead
                    = (alerts[i].isRead \/ i = loc'[Worker].id)
     /\ Serves("alert_delete") =>
          /\ Len(alerts') = Len(alerts)
          /\ \A i \in 1..Len(alerts) :
               /\ alerts'[i].isRead = alerts[i].isRead
               /\ alerts'[i].isActive
                    = (alerts[i].isActive /\ i # loc'[Worker].id)
     /\ Serves("alert_read_all") =>
          /\ Len(alerts') = Len(alerts)
          /\ \A i \in 1..Len(alerts) :
               /\ alerts'[i].isActive = alerts[i].isActive
               /\ alerts'[i].isRead
                    = (alerts[i].isRead \/ alerts[i].isActive)
     /\ ~(Serves("alert_read") \/ Serves("alert_delete")
            \/ Serves("alert_read_all")) =>
          \A i \in 1..Len(alerts) : alerts'[i] = alerts[i]

\* C25: a step that keeps every alert in the store (every step but the
\* expiry sweep) leaves type, severity, entity reference, message and
\* expiresAt of each alert as they were, never turns isRead back to false
\* nor isActive back to true; mark-read sets isRead of its alert and
\* nothing else, delete clears isActive of its alert and nothing else,
\* mark-all-read sets isRead exactly on the alerts that were active (the
\* read ones stay read, the inactive unread ones stay unread), and the
\* steps of other requests change no stored alert.
C25_AlertsOnlyFlipReadAndActive == [][C25_AlertStep]_vars

\* After an issue that raised two alerts, the first was deleted and then
\* mark-all-read ran: the deleted one is still unread, the other is read.
C25_Witness ==
  /\ Finished(Worker, "alert_read_all", "200")
  /\ Len(alerts) >= 2
  /\ ~alerts[1].isActive /\ ~alerts[1].isRead
  /\ alerts[2].isActive /\ alerts[2].isRead
  /\ alerts[1].type = "medicine_issued"

\* The step of p that answers a delete-user request with a rejection.
RejectsDelete(p) ==
  /\ Acts(p) /\ pc'[p] = "idle"
  /\ loc'[p].op = "user_delete"
  /\ loc'[p].result \in {"400 last admin", "400 self"}

C26_RejectedDeleteFrame ==
  \A p \in Procs :
    (Acts(p) /\ (RejectsDelete(p) \/ pc'[p] \in {"ud_count", "ud_remove"}))
    => UNCHANGED <<users, activity, alerts>>

C26_DeleteStep ==
  /\ C26_RejectedDeleteFrame
  /\ Admins # {} => Admins' # {}

\* C26: the steps of a delete-user request up to and including its
\* rejection as last Admin or as self-deletion leave users, activity log
\* and alerts as they were, and, under any interleaving of the steps of
\* delete-user requests, no step takes the number of Admin users from
\* at least one to zero.
C26_DeletesKeepAnAdmin == [][C26_DeleteStep]_vars

====
